---- MODULE Spec2Model ----
(***************************************************************************)
(* Model of Spoilboard.py (heavior/parametric-spoilboard): the run()       *)
(* pipeline that validates the configuration, expands the bed hole list by *)
(* symmetry, realigns it to the spoilboard, filters holes near the edge,   *)
(* selects the zero points, and issues the body / sketch / hole requests   *)
(* to the CAD host.                                                        *)
(*                                                                         *)
(* Lengths are integers in micrometres (the script's millimetre values     *)
(* times 1000), angles are whole degrees.  tan(angle/2) is a per-mille     *)
(* table (Tan1000), so a quotient by it is exact to the micrometre; the    *)
(* configurations enumerated below stay away from exact ties of such a     *)
(* quotient, where binary64 rounding would decide.                         *)
(* A hole is a tuple <<x, y, isMountingPoint>>.                            *)
(***************************************************************************)
EXTENDS Integers, Sequences, FiniteSets, TLC

(* ---- bounds of the enumerated hole lists ---- *)
MaxHoles == 2
MaxGridX == 2
MaxGridY == 2

(* ---- module-level constants of the script ---- *)
maxExceptions == 4
ui == TRUE
showInfoMessages == TRUE
validateCountersunkDepth == TRUE
supportOversizeSpoilboard == FALSE
bedThickness == 8000
bedMetricThread == 6000
zeroMarkDepth == 100
zeroMarkWidth == 4000
chamferWidth == 0

VARIABLES
    cfg,                          \* the static configuration of this run
    holes,                        \* global holes (bed frame)
    bedXdimension, bedYdimension, \* globals, swapped by turnModel
    spoilboardSheetXdimenstion,   \* global, cut by twoPassMilling
    spoilboardSheetYdimenstion,
    pc,                           \* position of run()
    holeTipDepth, additionalStock, spoilboardSheetThickness, holeMaxDepth,
    spoilboardXShift, spoilboardYShift, realKeepout,
    baseHoles, spoilboardHoles,
    centerIdx,                    \* centerPoint aliases spoilboardHoles[centerIdx]; 0: the synthetic list
    centerSynth,                  \* the synthetic [0, sheetY, False] list of two-pass mode
    secondPassCenterPoint,
    exceptionUICounter,
    messages,                     \* ui.messageBox calls, in order
    requests,                     \* host requests (sketches, boxes, hole features), in order
    failure                       \* text of the exception caught by run(), "none" if none

vars == << cfg, holes, bedXdimension, bedYdimension, spoilboardSheetXdimenstion,
           spoilboardSheetYdimenstion, pc, holeTipDepth, additionalStock,
           spoilboardSheetThickness, holeMaxDepth, spoilboardXShift, spoilboardYShift,
           realKeepout, baseHoles, spoilboardHoles, centerIdx, centerSynth,
           secondPassCenterPoint, exceptionUICounter, messages, requests, failure >>

(***************************************************************************)
(* Arithmetic helpers                                                      *)
(***************************************************************************)

\* math.tan(angle/2 * math.pi/180) * 1000 for the angles the configurations use.
\* binary64 gives tan(pi/2) = 1.633e16; any value this large makes every
\* quotient of a configured length 0 at micrometre resolution.
Tan1000(angle) ==
    CASE angle = 60  -> 577
      [] angle = 90  -> 1000
      [] angle = 120 -> 1732
      [] angle = 180 -> 1000000000

\* holeDiameter/math.tan(millBitPointAngle/2 * math.pi/180)/2, 0 for a flat bit
HoleTipDepth(millBitPointAngle, holeDiameter) ==
    IF millBitPointAngle = 0 \/ millBitPointAngle = 180
    THEN 0
    ELSE ((holeDiameter * 1000) \div Tan1000(millBitPointAngle)) \div 2

ThroughHoleStockClearance(ensureThroughHoles, throughHoleToolClearance, tipDepth) ==
    IF ensureThroughHoles THEN throughHoleToolClearance + tipDepth ELSE 0

AdditionalStock(ensureThroughHoles, throughHoleStockClearance, cncBedClearance) ==
    throughHoleStockClearance + (IF ensureThroughHoles THEN cncBedClearance ELSE 0)

SpoilboardSheetThickness(stockThickness, addStock, renderAdditionalStock) ==
    stockThickness + (IF renderAdditionalStock THEN addStock ELSE 0)

HoleMaxDepthRendered(stockThickness, addStock, ensureThroughHoles, renderAdditionalStock, cncBedClearance) ==
    IF ensureThroughHoles
    THEN stockThickness + (IF renderAdditionalStock THEN addStock ELSE 0) - cncBedClearance
    ELSE stockThickness - cncBedClearance

HoleMaxDepth(stockThickness, addStock, ensureThroughHoles, renderAdditionalStock, cncBedClearance) ==
    stockThickness + (IF ensureThroughHoles THEN addStock ELSE 0) - cncBedClearance

\* (screwHeadWidth - holeDiameter)/2/ math.tan(screwCountersunkAngle/2 * math.pi/180)/2
requiredCounterSunkDepth(screwHeadWidth, holeDiameter, screwCountersunkAngle) ==
    ((((screwHeadWidth - holeDiameter) \div 2) * 1000) \div Tan1000(screwCountersunkAngle)) \div 2

(***************************************************************************)
(* Parameter validation: the asserts of run(), in order.  The value is the *)
(* message of the first assert that fails, "none" if all pass.             *)
(***************************************************************************)
ValidationFailureNoBypass(c, bedX, bedY, sheetX, sheetY, maxDepth) ==
    IF ~supportOversizeSpoilboard /\ ~(bedX >= sheetX)
    THEN "spoilboard is too wide for X axis"
    ELSE IF ~supportOversizeSpoilboard /\ ~(bedY >= sheetY)
    THEN "spoilboard is too long for Y axis"
    ELSE IF validateCountersunkDepth /\ c.screwCountersunkDepth > 0
    THEN IF ~(c.screwCountersunkDepth <= maxDepth)
         THEN "max hole depth is not deep enough for countrsunk"
         ELSE IF ~(c.screwCountersunkAngle >= 0 /\ c.screwCountersunkAngle <= 180)
         THEN "screwCountersunkAngle is out of range"
         ELSE IF c.screwCountersunkAngle > 0
                 /\ ~(requiredCounterSunkDepth(c.screwHeadWidth, c.holeDiameter, c.screwCountersunkAngle)
                        <= c.screwCountersunkDepth)
         THEN "countersunk is too shallow for this angle"
         ELSE "none"
    ELSE "none"

ValidationFailure(c, bedX, bedY, sheetX, sheetY, maxDepth) ==
    IF ~supportOversizeSpoilboard /\ ~(bedX >= sheetX)
    THEN "spoilboard is too wide for X axis"
    ELSE IF ~supportOversizeSpoilboard /\ ~(bedY >= sheetY)
    THEN "spoilboard is too long for Y axis"
    ELSE IF validateCountersunkDepth /\ c.screwCountersunkDepth > 0
    THEN IF ~(c.ensureThroughHoles \/ c.screwCountersunkDepth <= maxDepth)
         THEN "max hole depth is not deep enough for countrsunk"
         ELSE IF ~(c.screwCountersunkAngle >= 0 /\ c.screwCountersunkAngle <= 180)
         THEN "screwCountersunkAngle is out of range"
         ELSE IF c.screwCountersunkAngle > 0
                 /\ ~(requiredCounterSunkDepth(c.screwHeadWidth, c.holeDiameter, c.screwCountersunkAngle)
                        <= c.screwCountersunkDepth)
         THEN "countersunk is too shallow for this angle"
         ELSE "none"
    ELSE "none"

(***************************************************************************)
(* Symmetry expansion and de-duplication                                   *)
(***************************************************************************)
MirrorX(hs, bedX) == [i \in 1..Len(hs) |-> << bedX - hs[i][1], hs[i][2], hs[i][3] >>]

MirrorY(hs, bedY) == [i \in 1..Len(hs) |-> << hs[i][1], bedY - hs[i][2], hs[i][3] >>]

ExpandHolesMirrorsFirst(hs, bedX, bedY, xSym, ySym) ==
    LET xs == IF xSym THEN MirrorX(hs, bedX) \o hs ELSE hs
    IN  IF ySym THEN MirrorY(xs, bedY) \o xs ELSE xs

\* holes += [[bedX - x, y, m] ...] if boardXsymmetrical; holes += [[x, bedY - y, m] ...] if boardYsymmetrical
ExpandHoles(hs, bedX, bedY, xSym, ySym) ==
    LET xs == IF xSym THEN hs \o MirrorX(hs, bedX) ELSE hs
    IN  IF ySym THEN xs \o MirrorY(xs, bedY) ELSE xs

\* the loop of remove_duplicate_holes: unique is the set of tuples seen so far
RECURSIVE CleanedHoles(_, _, _)
CleanedHoles(hs, unique, cleaned) ==
    IF hs = << >>
    THEN cleaned
    ELSE LET hole == Head(hs)
         IN  IF hole \notin unique
             THEN CleanedHoles(Tail(hs), unique \cup {hole}, Append(cleaned, hole))
             ELSE CleanedHoles(Tail(hs), unique, cleaned)

keep_all_holes(hs) == hs

remove_duplicate_holes(hs) == CleanedHoles(hs, {}, << >>)

(***************************************************************************)
(* Realignment to the spoilboard frame and the edge filter                 *)
(***************************************************************************)
\* (bedDim - sheetDim) / 2 if centerSpoilboard else the configured corner
SpoilboardShift(center, bedDim, sheetDim, corner) ==
    IF center THEN (bedDim - sheetDim) \div 2 ELSE corner

Realigned(hs, dx, dy) == [i \in 1..Len(hs) |-> << hs[i][1] - dx, hs[i][2] - dy, hs[i][3] >>]

\* spoilboardEdgeKeepOut + holeDiameter/2
RealKeepout(edgeKeepOut, holeDiameter) == edgeKeepOut + holeDiameter \div 2

spoilboardHoleCheckStrict(hole, keepout, sheetX, sheetY) ==
    /\ hole[1] > keepout
    /\ hole[2] > keepout
    /\ hole[1] < sheetX - keepout
    /\ hole[2] < sheetY - keepout

spoilboardHoleCheck(hole, keepout, sheetX, sheetY) ==
    /\ hole[1] >= keepout
    /\ hole[2] >= keepout
    /\ hole[1] <= sheetX - keepout
    /\ hole[2] <= sheetY - keepout

FilteredHoles(hs, keepout, sheetX, sheetY) ==
    SelectSeq(hs, LAMBDA elem : spoilboardHoleCheck(elem, keepout, sheetX, sheetY))

(***************************************************************************)
(* Zero-point selection of two-pass milling.  The scans return the index   *)
(* of the hole the loop variable ends on, 0 while it is still the          *)
(* synthetic starting list.  hole[0] > sheetX/2 is written 2*x > sheetX.   *)
(***************************************************************************)
FirstPassDefault(sheetY) == << 0, sheetY, FALSE >>

SecondPassDefault(sheetX) == << sheetX, 0, FALSE >>

RECURSIVE FirstPassScanAwayFromMiddle(_, _, _, _, _)
FirstPassScanAwayFromMiddle(hs, i, cur, sheetX, sheetY) ==
    IF i > Len(hs)
    THEN cur
    ELSE LET hole == hs[i]
             centerPoint == IF cur = 0 THEN FirstPassDefault(sheetY) ELSE hs[cur]
         IN  IF 2 * hole[1] > sheetX
             THEN FirstPassScanAwayFromMiddle(hs, i + 1, cur, sheetX, sheetY)
             ELSE IF hole[1] > centerPoint[1]
             THEN FirstPassScanAwayFromMiddle(hs, i + 1, cur, sheetX, sheetY)
             ELSE IF hole[2] > centerPoint[2]
             THEN FirstPassScanAwayFromMiddle(hs, i + 1, cur, sheetX, sheetY)
             ELSE FirstPassScanAwayFromMiddle(hs, i + 1, i, sheetX, sheetY)

RECURSIVE FirstPassScan(_, _, _, _, _)
FirstPassScan(hs, i, cur, sheetX, sheetY) ==
    IF i > Len(hs)
    THEN cur
    ELSE LET hole == hs[i]
             centerPoint == IF cur = 0 THEN FirstPassDefault(sheetY) ELSE hs[cur]
         IN  IF 2 * hole[1] > sheetX
             THEN FirstPassScan(hs, i + 1, cur, sheetX, sheetY)
             ELSE IF hole[1] < centerPoint[1]
             THEN FirstPassScan(hs, i + 1, cur, sheetX, sheetY)
             ELSE IF hole[2] > centerPoint[2]
             THEN FirstPassScan(hs, i + 1, cur, sheetX, sheetY)
             ELSE FirstPassScan(hs, i + 1, i, sheetX, sheetY)

RECURSIVE SecondPassScan(_, _, _, _)
SecondPassScan(hs, i, cur, sheetX) ==
    IF i > Len(hs)
    THEN cur
    ELSE LET hole == hs[i]
             secondPass == IF cur = 0 THEN SecondPassDefault(sheetX) ELSE hs[cur]
         IN  IF 2 * hole[1] <= sheetX
             THEN SecondPassScan(hs, i + 1, cur, sheetX)
             ELSE IF hole[1] > secondPass[1]
             THEN SecondPassScan(hs, i + 1, cur, sheetX)
             ELSE IF hole[2] < secondPass[2]
             THEN SecondPassScan(hs, i + 1, cur, sheetX)
             ELSE SecondPassScan(hs, i + 1, i, sheetX)

\* [elem for elem in spoilboardHoles if elem[0] <= spoilboardSheetXdimenstion/2]
LeftHalf(hs, sheetX) == SelectSeq(hs, LAMBDA elem : 2 * elem[1] <= sheetX)

\* the position, in LeftHalf(hs, sheetX), of the list object hs[idx]
IndexAfterCut(hs, idx, sheetX) ==
    IF idx = 0 THEN 0 ELSE Cardinality({j \in 1..idx : 2 * hs[j][1] <= sheetX})

CutSheetXNoKeepout(secondPass, keepout) == secondPass[1]

\* secondPassCenterPoint[0] + realKeepout
CutSheetX(secondPass, keepout) == secondPass[1] + keepout

(***************************************************************************)
(* Corner marking                                                          *)
(***************************************************************************)
RECURSIVE CornerScan(_, _, _, _, _, _)
CornerScan(hs, i, cur, corner0, magicX, magicY) ==
    IF i > Len(hs)
    THEN cur
    ELSE LET hole == hs[i]
             corner == IF cur = 0 THEN corner0 ELSE hs[cur]
         IN  IF hole[2] * magicY > corner[2] * magicY
             THEN CornerScan(hs, i + 1, cur, corner0, magicX, magicY)
             ELSE IF hole[1] * magicX > corner[1] * magicX
             THEN CornerScan(hs, i + 1, cur, corner0, magicX, magicY)
             ELSE CornerScan(hs, i + 1, i, corner0, magicX, magicY)

findCornerMagicSwapped(top, left, hs, sheetX, sheetY) ==
    LET cornerY == IF top THEN sheetY ELSE 0
        cornerX == IF left THEN sheetX ELSE 0
        magicX  == IF left THEN -1 ELSE 1
        magicY  == IF top THEN 1 ELSE -1
    IN  CornerScan(hs, 1, 0, << cornerX, cornerY, FALSE >>, magicX, magicY)

\* index of the hole findCorner returns, 0 if it returns its own synthetic corner
findCorner(top, left, hs, sheetX, sheetY) ==
    LET cornerY == IF top THEN sheetY ELSE 0
        cornerX == IF left THEN sheetX ELSE 0
        magicX  == IF left THEN 1 ELSE -1
        magicY  == IF top THEN 1 ELSE -1
    IN  CornerScan(hs, 1, 0, << cornerX, cornerY, FALSE >>, magicX, magicY)

\* findCorner(...)[2] = True for the four corners
MarkedCorners(hs, sheetX, sheetY) ==
    LET marked == { findCorner(t, l, hs, sheetX, sheetY) : t \in BOOLEAN, l \in BOOLEAN }
    IN  [i \in 1..Len(hs) |-> IF i \in marked THEN << hs[i][1], hs[i][2], TRUE >> ELSE hs[i]]

\* (hole[0], hole[1]) = (hole[1], hole[0])
Swapped(hole) == << hole[2], hole[1], hole[3] >>

SwappedAll(hs) == [i \in 1..Len(hs) |-> Swapped(hs[i])]

\* centerPoint: a reference to a hole of spoilboardHoles, or the synthetic list
centerPoint == IF centerIdx = 0 THEN centerSynth ELSE spoilboardHoles[centerIdx]

(***************************************************************************)
(* Configurations.  SourceConfig is the configuration the file ships with  *)
(* (after its publishToCommunity override); the other sets vary the        *)
(* settings a user edits at the top of the file.                           *)
(***************************************************************************)
SourceHoles ==
    << << 20000, 20000, TRUE >>,   << 80000, 20000, FALSE >>,  << 140000, 20000, FALSE >>,
       << 50000, 45000, FALSE >>,  << 110000, 45000, FALSE >>,
       << 20000, 70000, FALSE >>,  << 80000, 70000, FALSE >>,  << 140000, 70000, FALSE >>,
       << 110000, 97500, FALSE >>,
       << 70000, 108000, FALSE >>,
       << 20000, 125000, FALSE >>, << 140000, 125000, FALSE >>,
       << 70000, 150000, FALSE >>, << 110000, 150000, FALSE >> >>

SourceConfig ==
    [ renderBed |-> TRUE, renderSpoilboard |-> TRUE, centerSpoilboard |-> TRUE,
      renderAdditionalStock |-> FALSE, ensureThroughHoles |-> TRUE,
      turnModel |-> FALSE, twoPassMilling |-> FALSE, cleanModel |-> FALSE,
      markCornersAsMountingPoints |-> FALSE,
      bedXdimension |-> 360000, bedYdimension |-> 300000,
      spoilboardSheetXdimenstion |-> 152000, spoilboardSheetYdimenstion |-> 254000,
      spoilboardCornerX |-> 104000, spoilboardCornerY |-> 23000,
      stockThickness |-> 25400,
      screwCountersunkAngle |-> 0, screwHeadWidth |-> 13000, screwCountersunkDepth |-> 19400,
      millBitPointAngle |-> 90,
      boardXsymmetrical |-> TRUE, boardYsymmetrical |-> TRUE,
      holes |-> SourceHoles,
      holeDiameter |-> 8000, throughHoleToolClearance |-> 500, cncBedClearance |-> 1000,
      spoilboardEdgeKeepOut |-> 5000 ]

\* bed 360x300, sheet 355x280, two holes, X-symmetric only
ScenarioA ==
    [SourceConfig EXCEPT !.spoilboardSheetXdimenstion = 355000, !.spoilboardSheetYdimenstion = 280000,
                         !.spoilboardCornerX = 2500, !.spoilboardCornerY = 20000,
                         !.boardYsymmetrical = FALSE, !.renderBed = FALSE,
                         !.holes = << << 20000, 20000, TRUE >>, << 80000, 20000, FALSE >> >>]

\* two-pass milling, sheet X = 355, surviving holes at x = 10 and x = 350
ScenarioB ==
    [ScenarioA EXCEPT !.twoPassMilling = TRUE, !.boardXsymmetrical = FALSE,
                      !.spoilboardEdgeKeepOut = 1000,
                      !.holes = << << 12500, 30000, FALSE >>, << 352500, 30000, FALSE >> >>]

\* countersink angle 90, head 12, hole 7, depth 3.5 or 2.0, through-holes off
ScenarioC ==
    { [ScenarioA EXCEPT !.ensureThroughHoles = FALSE, !.screwCountersunkAngle = 90,
                        !.screwHeadWidth = 12000, !.holeDiameter = 7000,
                        !.screwCountersunkDepth = d] : d \in {3500, 2000} }

ValidationConfigs ==
    { [ScenarioA EXCEPT !.ensureThroughHoles = th,
                        !.screwCountersunkAngle = an, !.screwCountersunkDepth = d,
                        !.screwHeadWidth = hw, !.holeDiameter = hd,
                        !.spoilboardSheetXdimenstion = sx, !.spoilboardSheetYdimenstion = sy] :
        th \in BOOLEAN, an \in {-10, 0, 60, 90, 120, 180, 200},
        d \in {0, 900, 2000, 3500, 30000}, hw \in {6000, 12000}, hd \in {7000, 9000},
        sx \in {355000, 370000}, sy \in {280000, 310000} }

DepthConfigs ==
    { [ScenarioA EXCEPT !.ensureThroughHoles = th, !.renderAdditionalStock = ra,
                        !.millBitPointAngle = an, !.holeDiameter = hd,
                        !.throughHoleToolClearance = tc, !.cncBedClearance = bc,
                        !.stockThickness = st, !.screwCountersunkDepth = 0] :
        th \in BOOLEAN, ra \in BOOLEAN, an \in {0, 60, 90, 120, 180}, hd \in {7000, 8000},
        tc \in {0, 500}, bc \in {0, 1000, 2000}, st \in {12000, 25400} }

\* a small bed (8 x 8) with a 6 x 6 sheet and hole lists drawn from a 2 mm grid
SmallConfig ==
    [SourceConfig EXCEPT !.bedXdimension = 8000, !.bedYdimension = 8000,
                         !.spoilboardSheetXdimenstion = 6000, !.spoilboardSheetYdimenstion = 6000,
                         !.spoilboardCornerX = 0, !.spoilboardCornerY = 1000,
                         !.stockThickness = 6000, !.screwCountersunkDepth = 0,
                         !.holeDiameter = 2000, !.spoilboardEdgeKeepOut = 0,
                         !.renderBed = FALSE, !.holes = << >>]

GridHoles == { << 2000 * i, 2000 * j, m >> : i \in 1..MaxGridX, j \in 1..MaxGridY, m \in BOOLEAN }

HoleLists == UNION { [1..n -> GridHoles] : n \in 0..MaxHoles }

GeometryConfigs ==
    { [SmallConfig EXCEPT !.holes = hs, !.boardXsymmetrical = xs, !.boardYsymmetrical = ys,
                          !.twoPassMilling = tp, !.turnModel = tm,
                          !.markCornersAsMountingPoints = mc, !.centerSpoilboard = cs] :
        hs \in HoleLists, xs \in BOOLEAN, ys \in BOOLEAN, tp \in BOOLEAN, tm \in BOOLEAN,
        mc \in BOOLEAN, cs \in BOOLEAN }

EmissionConfigs ==
    { [SmallConfig EXCEPT !.holes = << << 2000, 2000, TRUE >>, << 4000, 2000, FALSE >> >>,
                          !.boardYsymmetrical = FALSE,
                          !.renderBed = rb, !.renderSpoilboard = rs, !.twoPassMilling = tp,
                          !.turnModel = tm, !.cleanModel = cm] :
        rb \in BOOLEAN, rs \in BOOLEAN, tp \in BOOLEAN, tm \in BOOLEAN, cm \in BOOLEAN }

\* wider edge keep-outs on the small sheet, up to one that no hole survives
KeepOutConfigs ==
    { [SmallConfig EXCEPT !.holes = << << 2000, 2000, TRUE >>, << 4000, 2000, FALSE >> >>,
                          !.spoilboardEdgeKeepOut = ko, !.twoPassMilling = tp,
                          !.turnModel = tm, !.centerSpoilboard = cs] :
        ko \in {1000, 2000, 3000}, tp \in BOOLEAN, tm \in BOOLEAN, cs \in BOOLEAN }

Configs ==
    {SourceConfig, ScenarioA, ScenarioB} \cup ScenarioC \cup ValidationConfigs \cup DepthConfigs
        \cup GeometryConfigs \cup EmissionConfigs \cup KeepOutConfigs

(***************************************************************************)
(* Initial state: the module has been loaded, run() has not started.       *)
(***************************************************************************)
Init ==
    /\ cfg \in Configs
    /\ holes = cfg.holes
    /\ bedXdimension = cfg.bedXdimension
    /\ bedYdimension = cfg.bedYdimension
    /\ spoilboardSheetXdimenstion = cfg.spoilboardSheetXdimenstion
    /\ spoilboardSheetYdimenstion = cfg.spoilboardSheetYdimenstion
    /\ pc = "start"
    /\ holeTipDepth = 0
    /\ additionalStock = 0
    /\ spoilboardSheetThickness = 0
    /\ holeMaxDepth = 0
    /\ spoilboardXShift = 0
    /\ spoilboardYShift = 0
    /\ realKeepout = 0
    /\ baseHoles = << >>
    /\ spoilboardHoles = << >>
    /\ centerIdx = 0
    /\ centerSynth = << 0, 0, FALSE >>
    /\ secondPassCenterPoint = << 0, 0, FALSE >>
    /\ exceptionUICounter = 0
    /\ messages = << >>
    /\ requests = << >>
    /\ failure = "none"

(***************************************************************************)
(* Host-side helpers                                                       *)
(***************************************************************************)
\* the points createSketchWithPoints adds: those whose flag equals mountingHoles, shifted
SketchPoints(points, mountingHoles, shiftX, shiftY) ==
    LET chosen == SelectSeq(points, LAMBDA point : point[3] = mountingHoles)
    IN  [i \in 1..Len(chosen) |-> << chosen[i][1] + shiftX, chosen[i][2] + shiftY >>]

PointSetRequest(name, points, mountingHoles, shiftX, shiftY) ==
    [ op |-> "createPointSet", name |-> name,
      points |-> SketchPoints(points, mountingHoles, shiftX, shiftY) ]

BoxRequest(name, sizeX, sizeY, sizeZ, cornerX, cornerY, cornerZ) ==
    [ op |-> "createBox", name |-> name, size |-> << sizeX, sizeY, sizeZ >>,
      corner |-> << cornerX, cornerY, cornerZ >> ]

\* the hole input createHolesFromSketch builds
HoleInputKind(diameter, countersinkDiameter, countersinkAngle) ==
    IF countersinkAngle # 0 /\ countersinkDiameter > diameter THEN "countersink"
    ELSE IF countersinkDiameter > diameter THEN "counterbore"
    ELSE "simple"

HoleRequest(target, sketch, points, diameter, depth, countersinkDiameter, countersinkAngle, millTipAngle) ==
    [ op |-> "createHoleFeature", target |-> target, sketch |-> sketch, points |-> points,
      kind |-> HoleInputKind(diameter, countersinkDiameter, countersinkAngle),
      diameter |-> diameter, depth |-> depth, tipAngle |-> millTipAngle ]

AbortSilently(reason) ==
    /\ pc' = "failed"
    /\ failure' = reason
    /\ messages' = messages

\* the except clause of run(): report and stop
Abort(reason) ==
    /\ pc' = "failed"
    /\ failure' = reason
    /\ messages' = IF ui THEN Append(messages, [text |-> "Failed", detail |-> reason]) ELSE messages

(***************************************************************************)
(* The steps of run()                                                      *)
(***************************************************************************)
ComputeDepths ==
    /\ pc = "start"
    /\ LET tip == HoleTipDepth(cfg.millBitPointAngle, cfg.holeDiameter)
           clr == ThroughHoleStockClearance(cfg.ensureThroughHoles, cfg.throughHoleToolClearance, tip)
           add == AdditionalStock(cfg.ensureThroughHoles, clr, cfg.cncBedClearance)
       IN  /\ holeTipDepth' = tip
           /\ additionalStock' = add
           /\ spoilboardSheetThickness' = SpoilboardSheetThickness(cfg.stockThickness, add, cfg.renderAdditionalStock)
           /\ holeMaxDepth' = HoleMaxDepth(cfg.stockThickness, add, cfg.ensureThroughHoles,
                                           cfg.renderAdditionalStock, cfg.cncBedClearance)
           /\ messages' = IF cfg.ensureThroughHoles /\ ui /\ showInfoMessages
                          THEN Append(messages, [text |-> "Ensure clearance between stock and cnc bed", value |-> add])
                          ELSE messages
    /\ pc' = "validate"
    /\ UNCHANGED << cfg, holes, bedXdimension, bedYdimension, spoilboardSheetXdimenstion,
                    spoilboardSheetYdimenstion, spoilboardXShift, spoilboardYShift, realKeepout,
                    baseHoles, spoilboardHoles, centerIdx, centerSynth, secondPassCenterPoint,
                    exceptionUICounter, requests, failure >>

\* where run() continues after the asserts, given the message of the failing one
AfterValidationIgnoringAngle(reason) ==
    IF reason \in {"none", "screwCountersunkAngle is out of range"} THEN "expand" ELSE "failed"

AfterValidation(reason) == IF reason = "none" THEN "expand" ELSE "failed"

Validate ==
    /\ pc = "validate"
    /\ LET reason == ValidationFailure(cfg, bedXdimension, bedYdimension, spoilboardSheetXdimenstion,
                                       spoilboardSheetYdimenstion, holeMaxDepth)
       IN  IF AfterValidation(reason) = "failed"
           THEN Abort(reason)
           ELSE /\ pc' = AfterValidation(reason)
                /\ UNCHANGED << messages, failure >>
    /\ UNCHANGED << cfg, holes, bedXdimension, bedYdimension, spoilboardSheetXdimenstion,
                    spoilboardSheetYdimenstion, holeTipDepth, additionalStock,
                    spoilboardSheetThickness, holeMaxDepth, spoilboardXShift, spoilboardYShift,
                    realKeepout, baseHoles, spoilboardHoles, centerIdx, centerSynth,
                    secondPassCenterPoint, exceptionUICounter, requests >>

ExpandSymmetry ==
    /\ pc = "expand"
    /\ holes' = remove_duplicate_holes(ExpandHoles(holes, bedXdimension, bedYdimension,
                                                   cfg.boardXsymmetrical, cfg.boardYsymmetrical))
    /\ pc' = "realign"
    /\ UNCHANGED << cfg, bedXdimension, bedYdimension, spoilboardSheetXdimenstion,
                    spoilboardSheetYdimenstion, holeTipDepth, additionalStock,
                    spoilboardSheetThickness, holeMaxDepth, spoilboardXShift, spoilboardYShift,
                    realKeepout, baseHoles, spoilboardHoles, centerIdx, centerSynth,
                    secondPassCenterPoint, exceptionUICounter, messages, requests, failure >>

Realign ==
    /\ pc = "realign"
    /\ LET dx == SpoilboardShift(cfg.centerSpoilboard, bedXdimension, spoilboardSheetXdimenstion, cfg.spoilboardCornerX)
           dy == SpoilboardShift(cfg.centerSpoilboard, bedYdimension, spoilboardSheetYdimenstion, cfg.spoilboardCornerY)
       IN  /\ spoilboardXShift' = dx
           /\ spoilboardYShift' = dy
           /\ baseHoles' = Realigned(holes, dx, dy)
    /\ pc' = "filter"
    /\ UNCHANGED << cfg, holes, bedXdimension, bedYdimension, spoilboardSheetXdimenstion,
                    spoilboardSheetYdimenstion, holeTipDepth, additionalStock,
                    spoilboardSheetThickness, holeMaxDepth, realKeepout, spoilboardHoles,
                    centerIdx, centerSynth, secondPassCenterPoint, exceptionUICounter,
                    messages, requests, failure >>

EdgeFilter ==
    /\ pc = "filter"
    /\ LET keepout == RealKeepout(cfg.spoilboardEdgeKeepOut, cfg.holeDiameter)
       IN  /\ realKeepout' = keepout
           /\ spoilboardHoles' = FilteredHoles(baseHoles, keepout, spoilboardSheetXdimenstion,
                                               spoilboardSheetYdimenstion)
    /\ pc' = "zero"
    /\ UNCHANGED << cfg, holes, bedXdimension, bedYdimension, spoilboardSheetXdimenstion,
                    spoilboardSheetYdimenstion, holeTipDepth, additionalStock,
                    spoilboardSheetThickness, holeMaxDepth, spoilboardXShift, spoilboardYShift,
                    baseHoles, centerIdx, centerSynth, secondPassCenterPoint,
                    exceptionUICounter, messages, requests, failure >>

\* centerPoint = spoilboardHoles[0], then the two scans of two-pass milling
SelectZero ==
    /\ pc = "zero"
    /\ IF spoilboardHoles = << >>
       THEN /\ Abort("IndexError: list index out of range")
            /\ UNCHANGED << centerIdx, centerSynth, secondPassCenterPoint >>
       ELSE /\ UNCHANGED << messages, failure >>
            /\ IF cfg.twoPassMilling
               THEN LET second == SecondPassScan(spoilboardHoles, 1, 0, spoilboardSheetXdimenstion)
                    IN  /\ centerSynth' = FirstPassDefault(spoilboardSheetYdimenstion)
                        /\ centerIdx' = FirstPassScan(spoilboardHoles, 1, 0, spoilboardSheetXdimenstion,
                                                      spoilboardSheetYdimenstion)
                        /\ secondPassCenterPoint' =
                               IF second = 0 THEN SecondPassDefault(spoilboardSheetXdimenstion)
                                             ELSE spoilboardHoles[second]
                        /\ pc' = "cut"
               ELSE /\ centerIdx' = 1
                    /\ UNCHANGED << centerSynth, secondPassCenterPoint >>
                    /\ pc' = "corners"
    /\ UNCHANGED << cfg, holes, bedXdimension, bedYdimension, spoilboardSheetXdimenstion,
                    spoilboardSheetYdimenstion, holeTipDepth, additionalStock,
                    spoilboardSheetThickness, holeMaxDepth, spoilboardXShift, spoilboardYShift,
                    realKeepout, baseHoles, spoilboardHoles, exceptionUICounter, requests >>

\* remove the points that won't be rendered, cut the board
CutBoard ==
    /\ pc = "cut"
    /\ spoilboardHoles' = LeftHalf(spoilboardHoles, spoilboardSheetXdimenstion)
    /\ centerIdx' = IndexAfterCut(spoilboardHoles, centerIdx, spoilboardSheetXdimenstion)
    /\ spoilboardSheetXdimenstion' = CutSheetX(secondPassCenterPoint, realKeepout)
    /\ pc' = "corners"
    /\ UNCHANGED << cfg, holes, bedXdimension, bedYdimension, spoilboardSheetYdimenstion,
                    holeTipDepth, additionalStock, spoilboardSheetThickness, holeMaxDepth,
                    spoilboardXShift, spoilboardYShift, realKeepout, baseHoles, centerSynth,
                    secondPassCenterPoint, exceptionUICounter, messages, requests, failure >>

MarkCorners ==
    /\ pc = "corners"
    /\ spoilboardHoles' = IF cfg.markCornersAsMountingPoints
                          THEN MarkedCorners(spoilboardHoles, spoilboardSheetXdimenstion,
                                             spoilboardSheetYdimenstion)
                          ELSE spoilboardHoles
    /\ pc' = "report"
    /\ UNCHANGED << cfg, holes, bedXdimension, bedYdimension, spoilboardSheetXdimenstion,
                    spoilboardSheetYdimenstion, holeTipDepth, additionalStock,
                    spoilboardSheetThickness, holeMaxDepth, spoilboardXShift, spoilboardYShift,
                    realKeepout, baseHoles, centerIdx, centerSynth, secondPassCenterPoint,
                    exceptionUICounter, messages, requests, failure >>

ReportZero ==
    /\ pc = "report"
    /\ messages' = IF ui /\ showInfoMessages
                   THEN Append(messages, [text |-> "Mark the zero on spoilboard",
                                          x |-> centerPoint[1], y |-> centerPoint[2]])
                   ELSE messages
    /\ pc' = "turn"
    /\ UNCHANGED << cfg, holes, bedXdimension, bedYdimension, spoilboardSheetXdimenstion,
                    spoilboardSheetYdimenstion, holeTipDepth, additionalStock,
                    spoilboardSheetThickness, holeMaxDepth, spoilboardXShift, spoilboardYShift,
                    realKeepout, baseHoles, spoilboardHoles, centerIdx, centerSynth,
                    secondPassCenterPoint, exceptionUICounter, requests, failure >>

\* swap X and Y everywhere; the synthetic centerPoint list is in neither hole list
TurnModel ==
    /\ pc = "turn"
    /\ IF cfg.turnModel
       THEN /\ bedXdimension' = bedYdimension
            /\ bedYdimension' = bedXdimension
            /\ spoilboardSheetXdimenstion' = spoilboardSheetYdimenstion
            /\ spoilboardSheetYdimenstion' = spoilboardSheetXdimenstion
            /\ spoilboardXShift' = spoilboardYShift
            /\ spoilboardYShift' = spoilboardXShift
            /\ secondPassCenterPoint' = IF cfg.twoPassMilling THEN Swapped(secondPassCenterPoint)
                                                              ELSE secondPassCenterPoint
            /\ spoilboardHoles' = SwappedAll(spoilboardHoles)
            /\ baseHoles' = SwappedAll(baseHoles)
       ELSE UNCHANGED << bedXdimension, bedYdimension, spoilboardSheetXdimenstion,
                         spoilboardSheetYdimenstion, spoilboardXShift, spoilboardYShift,
                         secondPassCenterPoint, spoilboardHoles, baseHoles >>
    /\ pc' = "sketch"
    /\ UNCHANGED << cfg, holes, holeTipDepth, additionalStock, spoilboardSheetThickness,
                    holeMaxDepth, realKeepout, centerIdx, centerSynth, exceptionUICounter,
                    messages, requests, failure >>

\* deleteAllBodiesAndSketches if cleanModel, then the four sketches
CreateSketches ==
    /\ pc = "sketch"
    /\ requests' =
           (IF cfg.cleanModel THEN Append(requests, [op |-> "deleteAll"]) ELSE requests)
           \o << PointSetRequest("Mounting points", spoilboardHoles, TRUE, -centerPoint[1], -centerPoint[2]),
                 PointSetRequest("Drilling points", spoilboardHoles, FALSE, -centerPoint[1], -centerPoint[2]),
                 PointSetRequest("Flatbed points", baseHoles, FALSE, -centerPoint[1], -centerPoint[2]),
                 PointSetRequest("Flatbed points", baseHoles, TRUE, -centerPoint[1], -centerPoint[2]) >>
    /\ pc' = "bed"
    /\ UNCHANGED << cfg, holes, bedXdimension, bedYdimension, spoilboardSheetXdimenstion,
                    spoilboardSheetYdimenstion, holeTipDepth, additionalStock,
                    spoilboardSheetThickness, holeMaxDepth, spoilboardXShift, spoilboardYShift,
                    realKeepout, baseHoles, spoilboardHoles, centerIdx, centerSynth,
                    secondPassCenterPoint, exceptionUICounter, messages, failure >>

\* renderBox("CNC bed", ...) if renderBed; renderBox raises when the host creates no body
RenderBedBox ==
    /\ pc = "bed"
    /\ IF cfg.renderBed
       THEN /\ requests' = Append(requests,
                   BoxRequest("CNC bed", bedXdimension, bedYdimension, bedThickness,
                              -centerPoint[1] - spoilboardXShift, -centerPoint[2] - spoilboardYShift,
                              -bedThickness - spoilboardSheetThickness))
            /\ \E ok \in BOOLEAN :
                   IF ok THEN pc' = "bedHoles" /\ UNCHANGED << messages, failure >>
                         ELSE Abort("No body was created by the extrusion.")
       ELSE /\ pc' = "spoilboard"
            /\ UNCHANGED << requests, messages, failure >>
    /\ UNCHANGED << cfg, holes, bedXdimension, bedYdimension, spoilboardSheetXdimenstion,
                    spoilboardSheetYdimenstion, holeTipDepth, additionalStock,
                    spoilboardSheetThickness, holeMaxDepth, spoilboardXShift, spoilboardYShift,
                    realKeepout, baseHoles, spoilboardHoles, centerIdx, centerSynth,
                    secondPassCenterPoint, exceptionUICounter >>

RenderSpoilboardBox ==
    /\ pc = "spoilboard"
    /\ IF cfg.renderSpoilboard
       THEN /\ requests' = Append(requests,
                   BoxRequest("Spoilboard", spoilboardSheetXdimenstion, spoilboardSheetYdimenstion,
                              spoilboardSheetThickness, -centerPoint[1], -centerPoint[2],
                              -spoilboardSheetThickness))
            /\ \E ok \in BOOLEAN :
                   IF ok THEN pc' = "mountingHoles" /\ UNCHANGED << messages, failure >>
                         ELSE Abort("No body was created by the extrusion.")
       ELSE /\ pc' = "done"
            /\ UNCHANGED << requests, messages, failure >>
    /\ UNCHANGED << cfg, holes, bedXdimension, bedYdimension, spoilboardSheetXdimenstion,
                    spoilboardSheetYdimenstion, holeTipDepth, additionalStock,
                    spoilboardSheetThickness, holeMaxDepth, spoilboardXShift, spoilboardYShift,
                    realKeepout, baseHoles, spoilboardHoles, centerIdx, centerSynth,
                    secondPassCenterPoint, exceptionUICounter >>

(***************************************************************************)
(* createHolesFromSketch, once per call site of run()                      *)
(***************************************************************************)
HoleSteps == {"bedHoles", "bedCorners", "mountingHoles", "drillingHoles", "marks"}

\* the statement of run() that follows the call at this step
NextStep(step) ==
    CASE step = "bedHoles"      -> "bedCorners"
      [] step = "bedCorners"    -> "spoilboard"
      [] step = "mountingHoles" -> "drillingHoles"
      [] step = "drillingHoles" -> IF cfg.twoPassMilling THEN "marks" ELSE "done"
      [] step = "marks"         -> "done"

\* the sketch "Second pass zero point ..." of the marks
MarksSketch ==
    PointSetRequest("Second pass zero point", << secondPassCenterPoint, centerPoint >>,
                    secondPassCenterPoint[3], -centerPoint[1], -centerPoint[2])

\* the request of the call at this step
StepRequest(step) ==
    CASE step = "bedHoles" ->
            HoleRequest("CNC bed", "Flatbed points",
                        SketchPoints(baseHoles, FALSE, -centerPoint[1], -centerPoint[2]),
                        bedMetricThread, 2 * (bedThickness + spoilboardSheetThickness), 0, 0, 0)
      [] step = "bedCorners" ->
            HoleRequest("CNC bed", "Flatbed points (mounting)",
                        SketchPoints(baseHoles, TRUE, -centerPoint[1], -centerPoint[2]),
                        bedMetricThread, 2 * (bedThickness + spoilboardSheetThickness), 0, 0, 0)
      [] step = "mountingHoles" ->
            HoleRequest("Spoilboard", "Mounting points",
                        SketchPoints(spoilboardHoles, TRUE, -centerPoint[1], -centerPoint[2]),
                        cfg.holeDiameter, holeMaxDepth - holeTipDepth, cfg.screwHeadWidth,
                        cfg.screwCountersunkAngle, cfg.millBitPointAngle)
      [] step = "drillingHoles" ->
            HoleRequest("Spoilboard", "Drilling points",
                        SketchPoints(spoilboardHoles, FALSE, -centerPoint[1], -centerPoint[2]),
                        cfg.holeDiameter, holeMaxDepth - holeTipDepth,
                        cfg.holeDiameter + 2 * chamferWidth, cfg.millBitPointAngle,
                        cfg.millBitPointAngle)
      [] step = "marks" ->
            HoleRequest("Spoilboard", "Second pass zero point", MarksSketch.points,
                        zeroMarkWidth, zeroMarkDepth, 0, 0, cfg.millBitPointAngle)

\* the except clause of createHolesFromSketch returns normally
AfterHoleRequestAborting(step, ok) == IF ok THEN NextStep(step) ELSE "failed"

AfterHoleRequest(step, ok) == NextStep(step)

ShowsHoleDialogUncapped(counter) == ui

\* exceptionUICounter < maxExceptions and ui
ShowsHoleDialog(counter) == counter < maxExceptions /\ ui

CreateHoles ==
    /\ pc \in HoleSteps
    /\ LET request == StepRequest(pc)
           sketched == IF pc = "marks" THEN Append(requests, MarksSketch) ELSE requests
       IN  IF request.points = << >>
           THEN \* no actual points were added, return
                /\ pc' = NextStep(pc)
                /\ requests' = sketched
                /\ UNCHANGED << exceptionUICounter, messages >>
           ELSE \E ok \in BOOLEAN :
                /\ requests' = Append(sketched, request)
                /\ pc' = AfterHoleRequest(pc, ok)
                /\ IF ok
                   THEN UNCHANGED << exceptionUICounter, messages >>
                   ELSE /\ messages' = IF ShowsHoleDialog(exceptionUICounter)
                                       THEN Append(messages, [text |-> "Failed to create hole",
                                                              step |-> pc])
                                       ELSE messages
                        /\ exceptionUICounter' = exceptionUICounter + 1
    /\ UNCHANGED << cfg, holes, bedXdimension, bedYdimension, spoilboardSheetXdimenstion,
                    spoilboardSheetYdimenstion, holeTipDepth, additionalStock,
                    spoilboardSheetThickness, holeMaxDepth, spoilboardXShift, spoilboardYShift,
                    realKeepout, baseHoles, spoilboardHoles, centerIdx, centerSynth,
                    secondPassCenterPoint, failure >>

Next ==
    \/ ComputeDepths
    \/ Validate
    \/ ExpandSymmetry
    \/ Realign
    \/ EdgeFilter
    \/ SelectZero
    \/ CutBoard
    \/ MarkCorners
    \/ ReportZero
    \/ TurnModel
    \/ CreateSketches
    \/ RenderBedBox
    \/ RenderSpoilboardBox
    \/ CreateHoles

Spec == Init /\ [][Next]_vars

(***************************************************************************)
(* Properties                                                              *)
(***************************************************************************)
ValidatorReasons ==
    { "spoilboard is too wide for X axis", "spoilboard is too long for Y axis",
      "max hole depth is not deep enough for countrsunk",
      "screwCountersunkAngle is out of range",
      "countersunk is too shallow for this angle" }

\* run() has got past its asserts
Validated == pc \notin {"start", "validate"}

\* the hole list has been expanded and de-duplicated
Expanded == pc \notin {"start", "validate", "expand"} /\ failure \notin ValidatorReasons

SheetFitsBed ==
    /\ cfg.bedXdimension >= cfg.spoilboardSheetXdimenstion
    /\ cfg.bedYdimension >= cfg.spoilboardSheetYdimenstion

CountersinkConfigured ==
    /\ cfg.screwCountersunkDepth > 0
    /\ cfg.screwCountersunkAngle > 0
    /\ cfg.screwCountersunkAngle <= 180

\* the depth that sinks the head: (headWidth - holeDiameter) / 2 / tan(angle/2)
GeometricRequiredDepth ==
    (((cfg.screwHeadWidth - cfg.holeDiameter) \div 2) * 1000) \div Tan1000(cfg.screwCountersunkAngle)

\* C1: with a countersink configured and through-holes mode off, the validator
\* fails for too shallow a countersink exactly when (headWidth - holeDiameter)
\* / 2 / tan(angle/2) exceeds the configured depth (angle 90, head 12, hole 7:
\* depth 3.5 passes, depth 2.0 fails).  Stated for the configurations whose
\* earlier asserts (sheet size, depth against holeMaxDepth) pass.
C1_RequiredDepthDecides ==
    ( /\ Validated
      /\ CountersinkConfigured
      /\ ~cfg.ensureThroughHoles
      /\ SheetFitsBed
      /\ cfg.screwCountersunkDepth <= holeMaxDepth )
    => ( (failure = "countersunk is too shallow for this angle")
           <=> (GeometricRequiredDepth > cfg.screwCountersunkDepth) )

Holes(hs) == { hs[i] : i \in 1..Len(hs) }

LeftHoles == { h \in Holes(spoilboardHoles) : 2 * h[1] <= spoilboardSheetXdimenstion }

RightHoles == { h \in Holes(spoilboardHoles) : 2 * h[1] > spoilboardSheetXdimenstion }

\* C2 as stated: the first-pass zero is the hole of the left half with minimal
\* x (tie: maximal y), the second-pass zero mark the hole of the right half
\* with maximal x (tie: minimal y).
C2_MinXMaxY ==
    pc = "cut" =>
        /\ LeftHoles # {} =>
              /\ centerIdx # 0
              /\ \A h \in LeftHoles :
                     \/ centerPoint[1] < h[1]
                     \/ centerPoint[1] = h[1] /\ centerPoint[2] >= h[2]
        /\ RightHoles # {} =>
              /\ secondPassCenterPoint \in RightHoles
              /\ \A h \in RightHoles :
                     \/ secondPassCenterPoint[1] > h[1]
                     \/ secondPassCenterPoint[1] = h[1] /\ secondPassCenterPoint[2] <= h[2]

\* C2 amended: the first-pass zero is a hole of the left half that no hole of
\* that half at other coordinates matches or beats in both keys (x larger or
\* equal, y smaller or equal); the second-pass zero mark is a hole of the
\* right half that none beats with x smaller or equal and y larger or equal;
\* a half without holes leaves the synthetic starting point.
C2_TowardMiddle ==
    pc = "cut" =>
        /\ IF LeftHoles # {}
           THEN /\ centerIdx # 0
                /\ centerPoint \in LeftHoles
                /\ \A h \in LeftHoles :
                       (h[1] >= centerPoint[1] /\ h[2] <= centerPoint[2])
                           => (h[1] = centerPoint[1] /\ h[2] = centerPoint[2])
           ELSE centerIdx = 0 /\ centerPoint = << 0, spoilboardSheetYdimenstion, FALSE >>
        /\ IF RightHoles # {}
           THEN /\ secondPassCenterPoint \in RightHoles
                /\ \A h \in RightHoles :
                       (h[1] <= secondPassCenterPoint[1] /\ h[2] >= secondPassCenterPoint[2])
                           => (h[1] = secondPassCenterPoint[1] /\ h[2] = secondPassCenterPoint[2])
           ELSE secondPassCenterPoint = << spoilboardSheetXdimenstion, 0, FALSE >>

\* two holes of the left half that neither key orders, and the zero is the one with the larger x
C2_Witness ==
    /\ pc = "cut"
    /\ centerIdx # 0
    /\ \E h \in LeftHoles : h[1] < centerPoint[1] /\ h[2] < centerPoint[2]
    /\ RightHoles # {}

\* C3 as stated: after expansion and de-duplication no two holes share the
\* same (x, y), whatever their mounting flags.
C3_NoSharedXY ==
    Expanded =>
        \A i, j \in 1..Len(holes) :
            i # j => << holes[i][1], holes[i][2] >> # << holes[j][1], holes[j][2] >>

\* C3 amended: after expansion and de-duplication no two holes agree in x, y
\* and mounting flag (two holes at one (x, y) with different flags both stay).
C3_NoSharedXYFlag ==
    Expanded => \A i, j \in 1..Len(holes) : i # j => holes[i] # holes[j]

\* a hole on a symmetry axis collapsed with its mirror image
C3_Witness ==
    /\ Expanded
    /\ cfg.boardXsymmetrical
    /\ \E i \in 1..Len(cfg.holes) : 2 * cfg.holes[i][1] = cfg.bedXdimension
    /\ Len(holes) < 2 * Len(cfg.holes) * (IF cfg.boardYsymmetrical THEN 2 ELSE 1)
    /\ Len(holes) > Len(cfg.holes)

\* the list the claim describes, before first-occurrence filtering
C4_Listed ==
    LET orig == cfg.holes
        n    == Len(orig)
        xs   == [k \in 1..(IF cfg.boardXsymmetrical THEN 2 * n ELSE n) |->
                    IF k <= n THEN orig[k]
                    ELSE << cfg.bedXdimension - orig[k - n][1], orig[k - n][2], orig[k - n][3] >>]
        m    == Len(xs)
    IN  [k \in 1..(IF cfg.boardYsymmetrical THEN 2 * m ELSE m) |->
            IF k <= m THEN xs[k]
            ELSE << xs[k - m][1], cfg.bedYdimension - xs[k - m][2], xs[k - m][3] >>]

FirstIndex(seq, e) == CHOOSE k \in 1..Len(seq) : seq[k] = e /\ \A l \in 1..(k - 1) : seq[l] # e

\* C4: the expander's output is the first-occurrence sequence of the
\* originals, then their X-mirror copies (x' = bedX - x), then the Y-mirror
\* copies (y' = bedY - y) of all of those, flags kept; the originals come
\* before every hole that mirroring adds; bed 360x300 with
\* [(20,20,true),(80,20,false)], X-symmetric only, gives exactly 4 holes.
C4_ExpansionOrder ==
    Expanded =>
        /\ Holes(holes) = Holes(C4_Listed)
        /\ \A i, j \in 1..Len(holes) :
               i < j => FirstIndex(C4_Listed, holes[i]) < FirstIndex(C4_Listed, holes[j])
        /\ \A i, j \in 1..Len(holes) :
               (holes[i] \in Holes(cfg.holes) /\ holes[j] \notin Holes(cfg.holes)) => i < j
        /\ cfg = ScenarioA =>
               holes = << << 20000, 20000, TRUE >>, << 80000, 20000, FALSE >>,
                          << 340000, 20000, TRUE >>, << 280000, 20000, FALSE >> >>

C4_Witness ==
    /\ Expanded
    /\ cfg = ScenarioA
    /\ Len(holes) = 4
    /\ holes[3] = << 340000, 20000, TRUE >>

ClaimKeepout == cfg.spoilboardEdgeKeepOut + cfg.holeDiameter \div 2

\* C5: with keepout = edge keep-out + hole radius, a hole is kept by the edge
\* filter iff keepout <= x <= sheetX - keepout and keepout <= y <= sheetY -
\* keepout; dropping raises no error; the kept holes keep their order.
C5_EdgeFilter ==
    pc = "zero" =>
        /\ failure = "none"
        /\ spoilboardHoles =
               SelectSeq(baseHoles,
                         LAMBDA h : /\ ClaimKeepout <= h[1]
                                    /\ h[1] <= cfg.spoilboardSheetXdimenstion - ClaimKeepout
                                    /\ ClaimKeepout <= h[2]
                                    /\ h[2] <= cfg.spoilboardSheetYdimenstion - ClaimKeepout)

\* one hole exactly at the keep-out distance is kept, another is dropped
C5_Witness ==
    /\ pc = "zero"
    /\ \E i \in 1..Len(spoilboardHoles) : spoilboardHoles[i][2] = ClaimKeepout
    /\ \E i \in 1..Len(spoilboardHoles) :
           spoilboardHoles[i][2] = cfg.spoilboardSheetYdimenstion - ClaimKeepout
    /\ \E i \in 1..Len(baseHoles) :
           baseHoles[i][1] > cfg.spoilboardSheetXdimenstion - ClaimKeepout
    /\ Len(spoilboardHoles) < Len(baseHoles)

AfterCut == cfg.twoPassMilling /\ pc \in {"corners", "report", "turn"}

\* C6: in two-pass mode the cut sets the sheet X-dimension to
\* secondPassZero.x + keepout and keeps exactly the surviving holes with
\* x <= (configured sheetX)/2, in order; with sheet X = 355 and survivors at
\* x = 10 and x = 350 the zeros are those two holes and sheet X is 350 + keepout.
C6_CutBoard ==
    /\ [][pc = "cut" =>
            /\ spoilboardSheetXdimenstion' = secondPassCenterPoint[1] + ClaimKeepout
            /\ secondPassCenterPoint' = secondPassCenterPoint
            /\ spoilboardHoles' =
                   SelectSeq(spoilboardHoles, LAMBDA h : 2 * h[1] <= cfg.spoilboardSheetXdimenstion)
            /\ centerPoint' = centerPoint]_vars
    /\ [](AfterCut /\ cfg = ScenarioB =>
            /\ centerPoint[1] = 10000
            /\ secondPassCenterPoint[1] = 350000
            /\ spoilboardSheetXdimenstion = 350000 + ClaimKeepout
            /\ Len(spoilboardHoles) = 1)

\* the cut shortened the sheet and dropped the holes beyond the mid-line
C6_Witness ==
    /\ AfterCut
    /\ pc = "corners"
    /\ spoilboardSheetXdimenstion < cfg.spoilboardSheetXdimenstion
    /\ spoilboardHoles # << >>
    /\ secondPassCenterPoint[1] + realKeepout = spoilboardSheetXdimenstion
    /\ \E i \in 1..Len(baseHoles) : 2 * baseHoles[i][1] > cfg.spoilboardSheetXdimenstion

ClaimAdditionalStock ==
    IF cfg.ensureThroughHoles
    THEN (cfg.throughHoleToolClearance + holeTipDepth) + cfg.cncBedClearance
    ELSE 0

ClaimEffectiveSheetThickness ==
    IF cfg.renderAdditionalStock THEN cfg.stockThickness + ClaimAdditionalStock
                                 ELSE cfg.stockThickness

\* C7 as stated: maxHoleDepth = effectiveSheetThickness - bedClearance in
\* through-holes mode, stockThickness - bedClearance otherwise, for every
\* combination of the two flags.
C7_DepthFromEffectiveThickness ==
    pc # "start" =>
        holeMaxDepth = IF cfg.ensureThroughHoles
                       THEN ClaimEffectiveSheetThickness - cfg.cncBedClearance
                       ELSE cfg.stockThickness - cfg.cncBedClearance

\* C7 amended: maxHoleDepth = stockThickness + additionalStock - bedClearance
\* in through-holes mode whether or not the additional stock is rendered, and
\* stockThickness - bedClearance otherwise; the effective sheet thickness and
\* additionalStock are as the claim says.
C7_DepthFromAdditionalStock ==
    pc # "start" =>
        /\ additionalStock = ClaimAdditionalStock
        /\ spoilboardSheetThickness = ClaimEffectiveSheetThickness
        /\ holeMaxDepth = IF cfg.ensureThroughHoles
                          THEN cfg.stockThickness + ClaimAdditionalStock - cfg.cncBedClearance
                          ELSE cfg.stockThickness - cfg.cncBedClearance

\* through-holes on, additional stock not rendered: the holes go deeper than the rendered sheet
C7_Witness ==
    /\ pc = "validate"
    /\ cfg.ensureThroughHoles
    /\ ~cfg.renderAdditionalStock
    /\ holeTipDepth > 0
    /\ holeMaxDepth > spoilboardSheetThickness - cfg.cncBedClearance

\* the validator's failure conditions, as the claim lists them
ClaimValidatorFails ==
    \/ cfg.spoilboardSheetXdimenstion > cfg.bedXdimension
    \/ cfg.spoilboardSheetYdimenstion > cfg.bedYdimension
    \/ /\ cfg.screwCountersunkDepth > 0
       /\ \/ cfg.screwCountersunkAngle < 0
          \/ cfg.screwCountersunkAngle > 180
          \/ ~cfg.ensureThroughHoles /\ cfg.screwCountersunkDepth > holeMaxDepth
          \/ /\ cfg.screwCountersunkAngle > 0
             /\ requiredCounterSunkDepth(cfg.screwHeadWidth, cfg.holeDiameter,
                                         cfg.screwCountersunkAngle) > cfg.screwCountersunkDepth

GeometryRequests ==
    { i \in 1..Len(requests) :
        requests[i].op \in {"createBox", "createPointSet", "createHoleFeature"} }

\* C8: whenever the validator fails (sheet larger than the bed, countersink
\* angle outside [0, 180], countersink depth insufficient) the run aborts
\* with the failure reported, and no createBox, createPointSet or
\* createHoleFeature request is issued in that run.
C8_FailFast ==
    /\ [][pc = "validate" /\ ClaimValidatorFails =>
            /\ pc' = "failed"
            /\ failure' \in ValidatorReasons
            /\ messages' # << >>
            /\ messages'[Len(messages')] = [text |-> "Failed", detail |-> failure']
            /\ requests' = << >>]_vars
    /\ [][pc # "failed"]_vars
    /\ [](failure \in ValidatorReasons => pc = "failed" /\ GeometryRequests = {})

C8_Witness ==
    /\ pc = "failed"
    /\ failure = "screwCountersunkAngle is out of range"
    /\ ClaimValidatorFails
    /\ requests = << >>

HoleDialogs == { i \in 1..Len(messages) : messages[i].text = "Failed to create hole" }

HoleFeatureRequests == SelectSeq(requests, LAMBDA r : r.op = "createHoleFeature")

\* the hole-feature requests a complete run makes: one per call site whose sketch has points
ExpectedHoleSketches ==
    LET shiftX == -centerPoint[1]
        shiftY == -centerPoint[2]
        bed   == IF cfg.renderBed
                 THEN (IF SketchPoints(baseHoles, FALSE, shiftX, shiftY) # << >>
                       THEN << "Flatbed points" >> ELSE << >>)
                      \o (IF SketchPoints(baseHoles, TRUE, shiftX, shiftY) # << >>
                          THEN << "Flatbed points (mounting)" >> ELSE << >>)
                 ELSE << >>
        board == IF cfg.renderSpoilboard
                 THEN (IF SketchPoints(spoilboardHoles, TRUE, shiftX, shiftY) # << >>
                       THEN << "Mounting points" >> ELSE << >>)
                      \o (IF SketchPoints(spoilboardHoles, FALSE, shiftX, shiftY) # << >>
                          THEN << "Drilling points" >> ELSE << >>)
                      \o (IF cfg.twoPassMilling THEN << "Second pass zero point" >> ELSE << >>)
                 ELSE << >>
    IN  bed \o board

\* C9: at most 4 'Failed to create hole' dialogs are shown in a run, and a
\* failed hole-feature request never prevents the later hole-feature
\* requests (bed holes, mounting holes, drilling holes, second-pass marks)
\* from being attempted.
C9_DialogsCappedRequestsIndependent ==
    /\ [](Cardinality(HoleDialogs) <= 4)
    /\ [][(pc \in HoleSteps) => (pc' = NextStep(pc) /\ failure' = failure)]_vars
    /\ [](pc = "done" =>
            /\ failure = "none"
            /\ [i \in 1..Len(HoleFeatureRequests) |-> HoleFeatureRequests[i].sketch]
                   = ExpectedHoleSketches)

\* five hole-feature requests, all failed: four dialogs, all five attempted
C9_Witness ==
    /\ pc = "done"
    /\ exceptionUICounter = 5
    /\ Cardinality(HoleDialogs) = 4
    /\ Len(HoleFeatureRequests) = 5

\* C10 as stated: in through-holes mode the validator never fails over the
\* countersink depth, for every head width, hole diameter, angle in (0, 180]
\* and configured depth > 0.
C10_NoDepthFailure ==
    (Validated /\ cfg.ensureThroughHoles /\ CountersinkConfigured) =>
        failure \notin { "max hole depth is not deep enough for countrsunk",
                         "countersunk is too shallow for this angle" }

\* C10 amended: in through-holes mode the validator never fails because the
\* configured countersink depth exceeds the maximum hole depth; the check of
\* the configured depth against the required depth is still made, and fails
\* exactly when the required depth the validator computes exceeds it.
C10_OnlyCeilingBypassed ==
    (Validated /\ cfg.ensureThroughHoles /\ CountersinkConfigured) =>
        /\ failure # "max hole depth is not deep enough for countrsunk"
        /\ SheetFitsBed =>
              ( (failure = "countersunk is too shallow for this angle")
                  <=> (requiredCounterSunkDepth(cfg.screwHeadWidth, cfg.holeDiameter,
                                                cfg.screwCountersunkAngle)
                         > cfg.screwCountersunkDepth) )

\* through-holes on, configured depth beyond the maximum hole depth: validation passes
C10_Witness ==
    /\ pc = "expand"
    /\ cfg.ensureThroughHoles
    /\ CountersinkConfigured
    /\ cfg.screwCountersunkDepth > holeMaxDepth

Magics == {1, -1}

\* hole g is at least as far as every surviving hole toward the corner (mx, my), in both axes
DoublyExtreme(g, mx, my) ==
    \A h \in Holes(spoilboardHoles) : g[1] * mx <= h[1] * mx /\ g[2] * my <= h[2] * my

\* no surviving hole at other coordinates is at least as far as g toward the corner in both axes
Undominated(g, mx, my) ==
    \A h \in Holes(spoilboardHoles) :
        (h[1] * mx <= g[1] * mx /\ h[2] * my <= g[2] * my) => (h[1] = g[1] /\ h[2] = g[2])

NewlyFlagged == { i \in 1..Len(spoilboardHoles) : spoilboardHoles'[i][3] /\ ~spoilboardHoles[i][3] }

MarkingStep == pc = "corners" /\ cfg.markCornersAsMountingPoints

\* C11 as stated: for each of the four corners the flagged hole is a surviving
\* hole extreme in both axes toward that corner, and at most 4 holes get
\* their flag set by this step.
C11_ExtremeInBothAxes ==
    [][MarkingStep =>
          /\ Cardinality(NewlyFlagged) <= 4
          /\ \A i \in NewlyFlagged :
                 \E mx \in Magics, my \in Magics : DoublyExtreme(spoilboardHoles[i], mx, my)
          /\ spoilboardHoles # << >> =>
                 \A mx \in Magics, my \in Magics :
                     \E i \in 1..Len(spoilboardHoles) :
                         spoilboardHoles'[i][3] /\ DoublyExtreme(spoilboardHoles[i], mx, my)]_vars

\* C11 amended: for each of the four corners the flagged hole is a surviving
\* hole that no surviving hole at other coordinates matches or beats in both
\* axes toward that corner; it is extreme in both axes whenever some
\* surviving hole is; the step changes nothing but flags, clears none and
\* sets at most 4.
C11_UndominatedTowardCorner ==
    [][MarkingStep =>
          /\ Len(spoilboardHoles') = Len(spoilboardHoles)
          /\ \A i \in 1..Len(spoilboardHoles) :
                 /\ spoilboardHoles'[i][1] = spoilboardHoles[i][1]
                 /\ spoilboardHoles'[i][2] = spoilboardHoles[i][2]
                 /\ spoilboardHoles[i][3] => spoilboardHoles'[i][3]
          /\ Cardinality(NewlyFlagged) <= 4
          /\ \A i \in NewlyFlagged :
                 \E mx \in Magics, my \in Magics : Undominated(spoilboardHoles[i], mx, my)
          /\ spoilboardHoles # << >> =>
                 \A mx \in Magics, my \in Magics :
                     \E i \in 1..Len(spoilboardHoles) :
                         /\ spoilboardHoles'[i][3]
                         /\ Undominated(spoilboardHoles[i], mx, my)
                         /\ (\E h \in Holes(spoilboardHoles) : DoublyExtreme(h, mx, my))
                                => DoublyExtreme(spoilboardHoles[i], mx, my)]_vars

\* after the marking: a corner toward which no surviving hole is extreme in
\* both axes, and the hole flagged for it
C11_Witness ==
    /\ pc = "report"
    /\ cfg.markCornersAsMountingPoints
    /\ \A i \in 1..Len(cfg.holes) : ~cfg.holes[i][3]
    /\ \E mx \in Magics, my \in Magics :
           /\ ~\E h \in Holes(spoilboardHoles) : DoublyExtreme(h, mx, my)
           /\ \E i \in 1..Len(spoilboardHoles) :
                  spoilboardHoles[i][3] /\ Undominated(spoilboardHoles[i], mx, my)

\* the point sets and boxes issued so far
PointSetsOf(name) ==
    SelectSeq(requests, LAMBDA r : r.op = "createPointSet" /\ r.name = name)

\* C12: the zero point used as origin shift is in the frame of the emitted
\* holes: turnModel swaps its x and y exactly once, with the holes, also when
\* it is the synthetic default of two-pass mode, and a surviving hole chosen
\* as zero point is emitted at (0, 0).
C12_ZeroPointInTurnedFrame ==
    /\ [][pc = "turn" =>
            centerPoint' = IF cfg.turnModel THEN Swapped(centerPoint) ELSE centerPoint]_vars
    /\ []((pc = "bed" /\ centerIdx # 0) =>
            \E i \in 1..Len(requests) :
                /\ requests[i].op = "createPointSet"
                /\ requests[i].name \in {"Mounting points", "Drilling points"}
                /\ \E k \in 1..Len(requests[i].points) : requests[i].points[k] = << 0, 0 >>)

\* C13: in two-pass milling mode the sheet X-dimension after the cut never
\* exceeds the configured sheet X-dimension, also when no surviving hole has
\* x > sheetX/2 and the second-pass zero stays at its synthetic default.
C13_CutNeverWidens ==
    AfterCut => spoilboardSheetXdimenstion <= cfg.spoilboardSheetXdimenstion

\* C14: if no hole survives the edge filter, the run fails when it selects
\* the zero point (in single-pass and two-pass mode alike), reports the
\* failure, and issues no geometry or point-set request.
C14_NoSurvivorAborts ==
    /\ [][(pc = "zero" /\ spoilboardHoles = << >>) =>
            /\ pc' = "failed"
            /\ failure' = "IndexError: list index out of range"
            /\ messages' = Append(messages, [text |-> "Failed", detail |-> failure'])
            /\ requests' = << >>]_vars
    /\ [](failure = "IndexError: list index out of range" =>
            /\ pc = "failed"
            /\ spoilboardHoles = << >>
            /\ GeometryRequests = {})

\* holes on the bed, none of them survives, two-pass mode
C14_Witness ==
    /\ pc = "failed"
    /\ failure = "IndexError: list index out of range"
    /\ cfg.twoPassMilling
    /\ baseHoles # << >>
    /\ messages # << >>
    /\ messages[Len(messages)].text = "Failed"

====
